---- MODULE Spec2Model ----
(***************************************************************************)
(* The Turn Controller of src/app/page.tsx (the React component Home) and  *)
(* the two route handlers it calls, POST /api/openai-turn                  *)
(* (src/unnamed/part_001) and POST /api/llama-turn (src/unnamed/part_000). *)
(*                                                                         *)
(* A state of the model is one committed render of the component (the      *)
(* values of its useState hooks) together with what lives outside React:   *)
(* the pending setTimeout of the auto-continuation effect and the fetches  *)
(* that nextTurn() has issued and that have not answered yet.  Both hold   *)
(* the closure of the render that created them: nextTurn reads turn,       *)
(* history and topic of that render, not of the current one.               *)
(*                                                                         *)
(* One action is one event of the page (a click, a key, a timer, a fetch   *)
(* settling) with all it entails: the state updates of the handler are one *)
(* batch, the render that follows runs the effects whose dependencies      *)
(* changed, and an update made by an effect is rendered before the next    *)
(* event is handled.                                                       *)
(*                                                                         *)
(* The route handlers and the export are functions of their request; the   *)
(* specification SpecFn runs each of them on one request drawn from        *)
(* bounded sets (the variable probe holds the request and what came out),  *)
(* with texts that the sessions of Spec do not produce.                    *)
(*                                                                         *)
(* Text is a sequence of chunks; the chunk " " is white space, every other *)
(* chunk is text that neither starts nor ends with white space.            *)
(***************************************************************************)
EXTENDS Bags, FiniteSets, Integers, Sequences, TLC

VARIABLES topic, history, turn, loading, error, isRunning, roundCount,
          showExport, timer, inflight, last, probe

vars == <<topic, history, turn, loading, error, isRunning, roundCount,
          showExport, timer, inflight, last, probe>>

\* ---------------------------------------------------------------- bounds
\* fetches that may be outstanding at once (Enter can add one at any time)
MaxInFlight == 2
\* startConversation() calls explored in one behaviour
MaxStarts == 2
\* chunks of a text handed to a route handler or to the export
MaxTextLen == 2
\* messages of a history handed to a route handler or to the export
MaxHist == 2

\* ------------------------------------------------------------- constants
maxRounds == 10

SP == " "
InitialTopic == <<"Impacto de la IA en la educación">>
\* values the topic <input> may be given by onChange
Topics == {InitialTopic, <<SP>>}
\* texts the model services generate
Texts == {<<"hola">>}
Placeholder == <<"(sin respuesta)">>
NoError == <<>>

\* ------------------------------------------------------------------ text
RECURSIVE TrimStart(_)
TrimStart(t) == IF t # <<>> /\ Head(t) = SP THEN TrimStart(Tail(t)) ELSE t

RECURSIVE TrimEnd(_)
TrimEnd(t) ==
  IF t # <<>> /\ t[Len(t)] = SP THEN TrimEnd(SubSeq(t, 1, Len(t) - 1)) ELSE t

\* String.prototype.trim
Trim(t) == TrimEnd(TrimStart(t))

\* ------------------------------------------------- the model services
\* What a model service does with one request: it answers 2xx with a text,
\* answers non-success, or the connection fails.
\* present is whether the answer carries the text field at all
\* (data.message.content, resp.output_text)
UpstreamOf(texts, presents) ==
  [kind : {"ok"}, status : {200}, text : texts, present : presents]
    \cup [kind : {"nonok"}, status : {500}, text : {<<"upstream body">>},
          present : {TRUE}]
    \cup [kind : {"throw"}, status : {0}, text : {<<"fetch failed">>},
          present : {TRUE}]

Upstream == UpstreamOf(Texts, {TRUE})

Json(status, speaker, content, err) ==
  [status |-> status, speaker |-> speaker, content |-> content, error |-> err]

\* String.prototype.toUpperCase on a speaker
toUpperCase(s) ==
  CASE s = "openai" -> "OPENAI" [] s = "llama" -> "LLAMA" [] OTHER -> s

\* `${m.speaker.toUpperCase()}: ${m.content}`
Labeled(m) == <<toUpperCase(m.speaker), ": ">> \o m.content

LlamaSystem ==
  [role |-> "system",
   content |-> <<"Eres un LLM hablando con otro LLM, ten en cuenta que eres muy pasota y eres muy feliz en la vida sin darle mucha importancia a las cosas. Responde en 2-4 frases.",
                 SP, "No hables como si fueras un humano.">>]

LlamaYourTurn ==
  [role |-> "user",
   content |-> <<"Ahora te toca responder.", SP, "Continúa la conversación.">>]

\* a message list with the history entries labeled by the speaker as it is
llamaMessages_NoUpper(h) ==
  <<LlamaSystem>>
    \o [i \in 1..Len(h) |->
          [role |-> "assistant", content |-> <<h[i].speaker, ": ">> \o h[i].content]]
    \o <<LlamaYourTurn>>

\* the messages POST /api/llama-turn sends to the model; h is history ?? []
llamaMessages(h) ==
  <<LlamaSystem>>
    \o [i \in 1..Len(h) |-> [role |-> "assistant", content |-> Labeled(h[i])]]
    \o <<LlamaYourTurn>>

\* the body of the request to `${baseUrl}/api/chat`
llamaRequest(body) ==
  [messages |-> llamaMessages(body.history), stream |-> FALSE]

\* a handler that returns the trimmed text as it is
LlamaPOST_NoPlaceholder(body, up) ==
  CASE up.kind = "throw" -> Json(500, "", <<>>, up.text)
    [] up.kind = "nonok" ->
         Json(500, "", <<>>,
              <<"Ollama error ", ToString(up.status), ": ">> \o up.text)
    [] OTHER ->
         Json(200, "llama", Trim(IF up.present THEN up.text ELSE <<>>), <<>>)

\* POST /api/llama-turn:
\* (data?.message?.content ?? "").trim() || "(sin respuesta)"
LlamaPOST(body, up) ==
  CASE up.kind = "throw" -> Json(500, "", <<>>, up.text)
    [] up.kind = "nonok" ->
         Json(500, "", <<>>,
              <<"Ollama error ", ToString(up.status), ": ">> \o up.text)
    [] OTHER ->
         LET text == IF up.present THEN up.text ELSE <<>>
         IN  Json(200, "llama",
                  IF Trim(text) # <<>> THEN Trim(text) ELSE Placeholder, <<>>)

\* Array.prototype.join of texts
RECURSIVE Join(_, _)
Join(lines, sep) ==
  IF lines = <<>> THEN <<>>
  ELSE IF Len(lines) = 1 THEN lines[1]
  ELSE lines[1] \o sep \o Join(Tail(lines), sep)

\* the transcript of POST /api/openai-turn: "" when history?.length is falsy
transcript(h) == Join([i \in 1..Len(h) |-> Labeled(h[i])], <<"\n">>)

OpenAISystem ==
  [role |-> "system",
   content |-> <<"Eres un LLM participando en una conversación alternada con otro LLM.",
                 SP,
                 "Responde en 2-4 frases siendo muy rádical sobre el tópico que se pide. No hagas preguntas al usuario; habla al otro modelo.">>]

OpeningHead == <<"Inicia una conversación con otro LLM sobre este tema:", SP, "\"">>
OpeningTail == <<"\"", ".">>
ContinueHead == <<"Conversación hasta ahora:", "\n">>
ContinueTail == <<"\n", "\n", "Ahora te toca hablar.", SP, "Continúa.">>

\* a user prompt that opens with the default topic whatever the body says
openaiUserPrompt_DefaultTopic(body) ==
  IF Len(transcript(body.history)) > 0
    THEN ContinueHead \o transcript(body.history) \o ContinueTail
    ELSE OpeningHead \o <<"tecnología">> \o OpeningTail

\* the content of the user message of POST /api/openai-turn
openaiUserPrompt(body) ==
  IF Len(transcript(body.history)) > 0
    THEN ContinueHead \o transcript(body.history) \o ContinueTail
    ELSE OpeningHead
           \o (IF body.hasTopic THEN body.topic ELSE <<"tecnología">>)
           \o OpeningTail

\* the input of client.responses.create
openaiInput(body) ==
  <<OpenAISystem, [role |-> "user", content |-> openaiUserPrompt(body)]>>

\* POST /api/openai-turn: client.responses.create rejects on a non-success
\* answer and on a failed connection alike; both land in the catch.
OpenAIPOST(body, up) ==
  CASE up.kind \in {"throw", "nonok"} ->
         Json(500, "", <<>>, <<ToString(up.status)>> \o up.text)
    [] OTHER ->
         \* resp.output_text?.trim() || "(sin respuesta)"
         IF up.present /\ Trim(up.text) # <<>>
           THEN Json(200, "openai", Trim(up.text), <<>>)
           ELSE Json(200, "openai", Placeholder, <<>>)

\* ------------------------------------------------------ the component
\* the useState values of the current render
State ==
  [topic |-> topic, history |-> history, turn |-> turn, loading |-> loading,
   error |-> error, isRunning |-> isRunning, roundCount |-> roundCount,
   showExport |-> showExport]

isFinished(s) == s.roundCount >= maxRounds

\* what nextTurn() of render s reads when it runs: turn, history, topic
Closure(s) == [turn |-> s.turn, history |-> s.history, topic |-> s.topic]

\* nextTurn(), up to the await of fetch
nextTurnBegin(s) == [s EXCEPT !.loading = TRUE, !.error = NoError]

endpoint(c) == IF c.turn = "openai" THEN "/api/openai-turn" ELSE "/api/llama-turn"

\* the route handler behind the endpoint, run on the body nextTurn sent
Route(c, up) ==
  IF endpoint(c) = "/api/openai-turn"
    THEN OpenAIPOST([history |-> c.history, topic |-> c.topic,
                     hasTopic |-> TRUE], up)
    ELSE LlamaPOST([history |-> c.history], up)

\* a success that is dropped when the session is no longer running
nextTurnSuccess_IfRunning(s, msg) ==
  IF s.isRunning
    THEN [s EXCEPT !.history = Append(@, msg),
                   !.turn = IF @ = "openai" THEN "llama" ELSE "openai",
                   !.roundCount = @ + 1,
                   !.loading = FALSE]
    ELSE [s EXCEPT !.loading = FALSE]

\* a success that does not count the round
nextTurnSuccess_NoCount(s, msg) ==
  [s EXCEPT !.history = Append(@, msg),
            !.turn = IF @ = "openai" THEN "llama" ELSE "openai",
            !.loading = FALSE]

\* nextTurn() after res.json(): the three functional updates, then finally
nextTurnSuccess(s, msg) ==
  [s EXCEPT !.history = Append(@, msg),
            !.turn = IF @ = "openai" THEN "llama" ELSE "openai",
            !.roundCount = @ + 1,
            !.loading = FALSE]

\* a catch that also appends what the failed call returned
nextTurnFailure_Appends(s, c, e) ==
  [s EXCEPT !.error = e,
            !.history = Append(@, [speaker |-> c.turn, content |-> e]),
            !.isRunning = FALSE,
            !.showExport = IF Len(c.history) > 0 THEN TRUE ELSE @,
            !.loading = FALSE]

\* a catch without setIsRunning(false)
nextTurnFailure_KeepsRunning(s, c, e) ==
  [s EXCEPT !.error = e,
            !.showExport = IF Len(c.history) > 0 THEN TRUE ELSE @,
            !.loading = FALSE]

\* nextTurn(), catch and finally; c is the closure the call runs in
nextTurnFailure(s, c, e) ==
  [s EXCEPT !.error = e,
            !.isRunning = FALSE,
            !.showExport = IF Len(c.history) > 0 THEN TRUE ELSE @,
            !.loading = FALSE]

\* a reset without setRoundCount(0)
reset_KeepsRound(s) ==
  [s EXCEPT !.history = <<>>, !.turn = "openai", !.error = NoError,
            !.isRunning = FALSE, !.showExport = FALSE]

reset(s) ==
  [s EXCEPT !.history = <<>>, !.turn = "openai", !.error = NoError,
            !.roundCount = 0, !.isRunning = FALSE, !.showExport = FALSE]

\* a stop that clears the session as reset does
stopDebate_Resets(s) == reset(s)

stopDebate(s) ==
  [s EXCEPT !.isRunning = FALSE,
            !.showExport = IF Len(s.history) > 0 THEN TRUE ELSE @]

\* the call of nextTurn() that startConversation makes: it is the nextTurn
\* of the render the handler belongs to
startRequest(s) == Closure(s)

\* startConversation(): the state updates of one batch, in order
startConversation(s) ==
  LET r == IF Len(s.history) > 0 THEN reset(s) ELSE s
  IN  nextTurnBegin([r EXCEPT !.isRunning = TRUE, !.showExport = FALSE])

\* the dependency list of the effect that offers the export
exportDeps(s) == <<isFinished(s), Len(s.history)>>

\* the effect that offers the export: the state update it makes
exportEffect(s) ==
  IF isFinished(s) /\ Len(s.history) > 0 THEN [s EXCEPT !.showExport = TRUE] ELSE s

\* the dependency list of the auto-continuation effect
Deps(s) == <<s.isRunning, s.loading, s.turn, s.roundCount, s.topic>>

\* an auto-continuation effect that sets no timer
effectTimer_None(s) == {}

\* the timer the auto-continuation effect of render s sets (a set of
\* closures, at most one): setTimeout(() => nextTurn(), 2000)
effectTimer(s) ==
  IF s.isRunning /\ ~s.loading /\ s.roundCount < maxRounds
    THEN {Closure(s)} ELSE {}

\* an auto-continuation effect without its second branch
effectState_NoCap(s) == s

\* the state update the auto-continuation effect of render s makes
effectState(s) ==
  IF ~(s.isRunning /\ ~s.loading /\ s.roundCount < maxRounds)
     /\ s.isRunning /\ s.roundCount >= maxRounds
    THEN [s EXCEPT !.isRunning = FALSE, !.showExport = TRUE]
    ELSE s

\* an effect that returns no cleanup
effectCleanup_Keep(tm) == tm

\* what the cleanup of the effect's previous run leaves of the pending
\* timers tm: return () => clearTimeout(timer)
effectCleanup(tm) == {}

\* Commit render s after render prev, with tm the pending timers.  Each
\* effect runs when one of its dependencies changed, the auto-continuation
\* after the cleanup of its previous run; the updates the effects make are
\* one batch, rendered in turn.
RECURSIVE Effect(_, _, _)
Effect(prev, s, tm) ==
  LET s1 == IF exportDeps(prev) # exportDeps(s) THEN exportEffect(s) ELSE s
      run == Deps(prev) # Deps(s)
      s2 == IF run THEN effectState(s1) ELSE s1
      t  == IF run THEN effectCleanup(tm) \cup effectTimer(s) ELSE tm
  IN  IF s2 = s THEN [state |-> s, timer |-> t] ELSE Effect(s, s2, t)

\* -------------------------------------------------------------- export
\* JSON text is a sequence of chunks too: the punctuation of JSON, the
\* quote, the backslash, the line feed and the space are chunks of their
\* own, every other chunk is a run of characters that need no escape.

\* a quoted string whose characters are written as they are
jsonString_NoEscape(text) == <<"\"">> \o text \o <<"\"">>

\* JSON.stringify of one character of a string
jsonEscape(c) ==
  CASE c = "\"" -> <<"\\", "\"">>
    [] c = "\\" -> <<"\\", "\\">>
    [] c = "\n" -> <<"\\", "n">>
    [] OTHER -> <<c>>

RECURSIVE jsonEscapeAll(_)
jsonEscapeAll(text) ==
  IF text = <<>> THEN <<>> ELSE jsonEscape(Head(text)) \o jsonEscapeAll(Tail(text))

\* JSON.stringify of a string
jsonString(text) == <<"\"">> \o jsonEscapeAll(text) \o <<"\"">>

\* the indentation of JSON.stringify(value, null, 2) at depth d
Indent(d) == [i \in 1..(2 * d) |-> SP]

jsonMember(d, key, value) ==
  Indent(d) \o jsonString(<<key>>) \o <<":", SP>> \o value

jsonMessage(m) ==
  Indent(2) \o <<"{", "\n">>
    \o jsonMember(3, "speaker", jsonString(<<m.speaker>>)) \o <<",", "\n">>
    \o jsonMember(3, "content", jsonString(m.content)) \o <<"\n">>
    \o Indent(2) \o <<"}">>

jsonHistory(h) ==
  IF h = <<>> THEN <<"[", "]">>
  ELSE <<"[", "\n">>
         \o Join([i \in 1..Len(h) |-> jsonMessage(h[i])], <<",", "\n">>)
         \o <<"\n">> \o Indent(1) \o <<"]">>

\* exportConversation("json"): JSON.stringify({ topic, history }, null, 2)
exportJSON(tp, h) ==
  <<"{", "\n">>
    \o jsonMember(1, "topic", jsonString(tp)) \o <<",", "\n">>
    \o jsonMember(1, "history", jsonHistory(h)) \o <<"\n", "}">>

\* Reading the export back: JSON.parse, for documents of the shape
\* { "topic": string, "history": [ { "speaker": string, "content": string } ] }.
\* Each step returns whether it succeeded, what it read and the position
\* after it.
ParseFail == [ok |-> FALSE, val |-> <<>>, next |-> 0]
Parsed(v, n) == [ok |-> TRUE, val |-> v, next |-> n]

RECURSIVE skipWs(_, _)
skipWs(t, i) ==
  IF i <= Len(t) /\ t[i] \in {SP, "\n"} THEN skipWs(t, i + 1) ELSE i

At(t, i, c) == i >= 1 /\ i <= Len(t) /\ t[i] = c

RECURSIVE parseStringBody(_, _, _)
parseStringBody(t, i, acc) ==
  IF i > Len(t) \/ t[i] = "\n" THEN ParseFail
  ELSE IF t[i] = "\"" THEN Parsed(acc, i + 1)
  ELSE IF t[i] = "\\"
    THEN IF i + 1 > Len(t) THEN ParseFail
         ELSE CASE t[i + 1] = "\"" -> parseStringBody(t, i + 2, Append(acc, "\""))
                [] t[i + 1] = "\\" -> parseStringBody(t, i + 2, Append(acc, "\\"))
                [] t[i + 1] = "n" -> parseStringBody(t, i + 2, Append(acc, "\n"))
                [] OTHER -> ParseFail
  ELSE parseStringBody(t, i + 1, Append(acc, t[i]))

parseString(t, i) ==
  IF At(t, i, "\"") THEN parseStringBody(t, i + 1, <<>>) ELSE ParseFail

\* "key": and the white space around it; the position of the value, or 0
parseKey(t, i, key) ==
  LET k == parseString(t, skipWs(t, i))
  IN  IF k.ok /\ k.val = <<key>> /\ At(t, skipWs(t, k.next), ":")
        THEN skipWs(t, skipWs(t, k.next) + 1) ELSE 0

\* "key": string
parseStringMember(t, i, key) ==
  LET p == parseKey(t, i, key)
  IN  IF p = 0 THEN ParseFail ELSE parseString(t, p)

parseMessage(t, i) ==
  IF ~At(t, i, "{") THEN ParseFail
  ELSE LET sp == parseStringMember(t, i + 1, "speaker")
       IN  IF ~sp.ok \/ ~At(t, skipWs(t, sp.next), ",") \/ Len(sp.val) # 1
             THEN ParseFail
           ELSE LET ct == parseStringMember(t, skipWs(t, sp.next) + 1, "content")
                IN  IF ~ct.ok \/ ~At(t, skipWs(t, ct.next), "}") THEN ParseFail
                    ELSE Parsed([speaker |-> sp.val[1], content |-> ct.val],
                                skipWs(t, ct.next) + 1)

RECURSIVE parseElements(_, _, _)
parseElements(t, i, acc) ==
  LET m == parseMessage(t, i)
  IN  IF ~m.ok THEN ParseFail
      ELSE IF At(t, skipWs(t, m.next), "]")
        THEN Parsed(Append(acc, m.val), skipWs(t, m.next) + 1)
      ELSE IF At(t, skipWs(t, m.next), ",")
        THEN parseElements(t, skipWs(t, skipWs(t, m.next) + 1), Append(acc, m.val))
      ELSE ParseFail

parseArray(t, i) ==
  IF ~At(t, i, "[") THEN ParseFail
  ELSE IF At(t, skipWs(t, i + 1), "]") THEN Parsed(<<>>, skipWs(t, i + 1) + 1)
  ELSE parseElements(t, skipWs(t, i + 1), <<>>)

NotRead == [ok |-> FALSE, topic |-> <<>>, history |-> <<>>]

\* the { topic, history } pair read from the JSON text t
parseExport(t) ==
  IF ~At(t, skipWs(t, 1), "{") THEN NotRead
  ELSE LET tp == parseStringMember(t, skipWs(t, 1) + 1, "topic")
       IN  IF ~tp.ok \/ ~At(t, skipWs(t, tp.next), ",") THEN NotRead
           ELSE LET p == parseKey(t, skipWs(t, tp.next) + 1, "history")
                    h == parseArray(t, p)
                IN  IF p = 0 \/ ~h.ok \/ ~At(t, skipWs(t, h.next), "}")
                       \/ skipWs(t, skipWs(t, h.next) + 1) # Len(t) + 1
                      THEN NotRead
                    ELSE [ok |-> TRUE, topic |-> tp.val, history |-> h.val]

\* ------------------------------------------------------------ requests
\* texts of at most n chunks over the chunks cs
TextsUpTo(cs, n) == UNION {[1..k -> cs] : k \in 0..n}

\* a request to one of the functions: op names the function, out is empty
\* until the function has run and then holds what it returned
Probe(op, h, tp, hasTopic, up) ==
  [op |-> op, history |-> h, topic |-> tp, hasTopic |-> hasTopic, up |-> up,
   out |-> <<>>]

NoUp == [kind |-> "none", status |-> 0, text |-> <<>>, present |-> FALSE]
NoProbe == Probe("none", <<>>, <<>>, FALSE, NoUp)

\* the answers of a model service a route handler is run on
AdapterUpstream == UpstreamOf(TextsUpTo({SP, "a"}, MaxTextLen), BOOLEAN)

\* the messages a history handed to a function is made of
ProbeMessages ==
  [speaker : {"openai", "llama"}, content : TextsUpTo({SP, "a"}, 1)]

ProbeHistories == UNION {[1..k -> ProbeMessages] : k \in 0..MaxHist}

MessagesProbes ==
  {Probe("llama-messages", h, <<>>, TRUE, NoUp) : h \in ProbeHistories}

\* the body of a request to POST /api/openai-turn; topic is optional
InputProbes ==
  {Probe("openai-input", h, tp, has, NoUp) :
     h \in ProbeHistories, tp \in TextsUpTo({SP, "a", "\""}, MaxTextLen),
     has \in BOOLEAN}

\* the characters of the texts that are exported
ExportChunks == {"a", "n", "\"", "\\", "\n"}

\* histories of at most k messages whose contents hold at most b chunks
\* in all
RECURSIVE HistoriesWithin(_, _)
HistoriesWithin(k, b) ==
  {<<>>} \cup
    (IF k = 0 THEN {}
     ELSE UNION {{<<[speaker |-> s, content |-> c]>> \o h :
                    h \in HistoriesWithin(k - 1, b - Len(c))} :
                 s \in {"openai", "llama"}, c \in TextsUpTo(ExportChunks, b)})

\* the sessions exported: topic and contents hold at most MaxTextLen chunks
\* in all
ExportProbes ==
  UNION {{Probe("export", h, tp, TRUE, NoUp) :
            h \in HistoriesWithin(MaxHist, MaxTextLen - Len(tp))} :
         tp \in TextsUpTo(ExportChunks, MaxTextLen)}

AdapterProbes ==
  {Probe(op, <<>>, <<>>, TRUE, up) :
     op \in {"llama-turn", "openai-turn"}, up \in AdapterUpstream}

Commit(s, tm, fl, ev) ==
  \E st \in {s} : \E e \in {Effect(State, st, tm)} :
      /\ topic' = e.state.topic
      /\ history' = e.state.history
      /\ turn' = e.state.turn
      /\ loading' = e.state.loading
      /\ error' = e.state.error
      /\ isRunning' = e.state.isRunning
      /\ roundCount' = e.state.roundCount
      /\ showExport' = e.state.showExport
      /\ timer' = e.timer
      /\ inflight' = fl
      /\ last' = ev
      /\ probe' = probe

Init ==
  /\ topic = InitialTopic
  /\ history = <<>>
  /\ turn = "openai"
  /\ loading = FALSE
  /\ error = NoError
  /\ isRunning = FALSE
  /\ roundCount = 0
  /\ showExport = FALSE
  /\ timer = {}
  /\ inflight = EmptyBag
  /\ last = [ev |-> "init", starts |-> 0]
  /\ probe = NoProbe

CanIssue == BagCardinality(inflight) < MaxInFlight
CanStart == CanIssue /\ last.starts < MaxStarts

Event(ev) == [last EXCEPT !.ev = ev]
StartEvent(ev) == [ev |-> ev, starts |-> last.starts + 1]

\* onChange of the topic <input>
SetTopic ==
  \E v \in Topics :
    /\ v # topic
    /\ Commit([State EXCEPT !.topic = v], timer, inflight, Event("topic"))

\* onClick of the start button, disabled={loading || !topic.trim()}
StartButton ==
  /\ CanStart
  /\ ~(loading \/ Trim(topic) = <<>>)
  /\ Commit(startConversation(State), timer,
            inflight (+) SetToBag({startRequest(State)}), StartEvent("start"))

\* handleKeyPress with e.key === "Enter"
EnterKey ==
  /\ CanStart
  /\ Trim(topic) # <<>>
  /\ Commit(startConversation(State), timer,
            inflight (+) SetToBag({startRequest(State)}), StartEvent("enter"))

\* onClick of "Parar debate", rendered when isRunning
StopButton ==
  /\ isRunning
  /\ Commit(stopDebate(State), timer, inflight, Event("stop"))

\* onClick of "Reset", rendered when not isRunning
ResetButton ==
  /\ ~isRunning
  /\ Commit(reset(State), timer, inflight, Event("reset"))

\* the setTimeout callback of the effect: () => nextTurn()
TimerFires ==
  /\ CanIssue
  /\ \E c \in timer :
       Commit(nextTurnBegin(State), timer \ {c}, inflight (+) SetToBag({c}),
              Event("timer"))

\* an outstanding fetch answers res.ok
ReplyOk ==
  \E c \in BagToSet(inflight), up \in Upstream :
    LET res == Route(c, up)
    IN  /\ res.status \in 200..299
        /\ Commit(nextTurnSuccess(State,
                    [speaker |-> res.speaker, content |-> res.content]),
                  timer, inflight (-) SetToBag({c}), Event("ok"))

\* an outstanding fetch answers !res.ok: throw new Error(await res.text())
ReplyNotOk ==
  \E c \in BagToSet(inflight), up \in Upstream :
    LET res == Route(c, up)
    IN  /\ res.status \notin 200..299
        /\ Commit(nextTurnFailure(State, c,
                    <<"{\"error\":\"">> \o res.error \o <<"\"}">>),
                  timer, inflight (-) SetToBag({c}), Event("fail"))

\* an outstanding fetch rejects (the route is unreachable)
FetchRejects ==
  \E c \in BagToSet(inflight) :
    Commit(nextTurnFailure(State, c, <<"Failed to fetch">>),
           timer, inflight (-) SetToBag({c}), Event("reject"))

Next ==
  \/ SetTopic
  \/ StartButton
  \/ EnterKey
  \/ StopButton
  \/ ResetButton
  \/ TimerFires
  \/ ReplyOk
  \/ ReplyNotOk
  \/ FetchRejects

Spec == Init /\ [][Next]_vars

\* A session that is left to run: nobody stops or resets it and every
\* call succeeds. The timers that are set fire (setTimeout) and every
\* outstanding fetch is answered.
NextLive ==
  \/ SetTopic
  \/ StartButton
  \/ EnterKey
  \/ TimerFires
  \/ ReplyOk

SpecLive ==
  Init /\ [][NextLive]_vars /\ WF_vars(TimerFires) /\ WF_vars(ReplyOk)

\* ------------------------------------------------- the functions, alone
Controller ==
  <<topic, history, turn, loading, error, isRunning, roundCount, showExport,
    timer, inflight, last>>

Returns(v) == probe' = [probe EXCEPT !.out = Append(@, v)]

RunLlamaPOST ==
  /\ probe.op = "llama-turn" /\ probe.out = <<>>
  /\ Returns(LlamaPOST([history |-> probe.history], probe.up))
  /\ UNCHANGED Controller

RunOpenAIPOST ==
  /\ probe.op = "openai-turn" /\ probe.out = <<>>
  /\ Returns(OpenAIPOST([history |-> probe.history, topic |-> probe.topic,
                          hasTopic |-> probe.hasTopic], probe.up))
  /\ UNCHANGED Controller

RunLlamaMessages ==
  /\ probe.op = "llama-messages" /\ probe.out = <<>>
  /\ Returns(llamaRequest([history |-> probe.history]).messages)
  /\ UNCHANGED Controller

RunOpenAIInput ==
  /\ probe.op = "openai-input" /\ probe.out = <<>>
  /\ Returns(openaiInput([history |-> probe.history, topic |-> probe.topic,
                          hasTopic |-> probe.hasTopic]))
  /\ UNCHANGED Controller

RunExport ==
  /\ probe.op = "export" /\ probe.out = <<>>
  /\ Returns(exportJSON(probe.topic, probe.history))
  /\ UNCHANGED Controller

RunReadBack ==
  /\ probe.op = "export" /\ Len(probe.out) = 1
  /\ Returns(parseExport(probe.out[1]))
  /\ UNCHANGED Controller

InitFn ==
  /\ topic = InitialTopic
  /\ history = <<>>
  /\ turn = "openai"
  /\ loading = FALSE
  /\ error = NoError
  /\ isRunning = FALSE
  /\ roundCount = 0
  /\ showExport = FALSE
  /\ timer = {}
  /\ inflight = EmptyBag
  /\ last = [ev |-> "init", starts |-> 0]
  /\ probe \in AdapterProbes \cup MessagesProbes \cup InputProbes
                \cup ExportProbes

NextFn ==
  \/ RunLlamaPOST
  \/ RunOpenAIPOST
  \/ RunLlamaMessages
  \/ RunOpenAIInput
  \/ RunExport
  \/ RunReadBack

SpecFn == InitFn /\ [][NextFn]_vars

\* ----------------------------------------------------------------- claims
Issued == BagCardinality(inflight)
StartStep == last'.starts = last.starts + 1
\* the step issues a call: some closure has one fetch more than before
IssuesCall ==
  \E c \in BagToSet(inflight') : inflight' = inflight (+) SetToBag({c})

\* C1: the history starts with openai and its speakers strictly alternate.
\* Stated as claimed; the code violates it (startConversation calls the
\* nextTurn of the render before its own reset, and Enter starts a second
\* call beside the first).
C1_Alternates ==
  /\ history # <<>> => history[1].speaker = "openai"
  /\ \A i \in 1..(Len(history) - 1) : history[i].speaker # history[i + 1].speaker

\* C2: at most one adapter call is outstanding in every reachable state.
\* Stated as claimed; handleKeyPress does not look at loading.
C2_OneInFlight == Issued <= 1

\* C3: roundCount never exceeds maxRounds.  Stated as claimed; two calls
\* outstanding at roundCount = maxRounds - 1 both increment it.
C3_RoundCap == roundCount <= maxRounds

\* C4: a model service that does not answer success makes the route answer
\* a failure status, and the step that handles a failure status appends
\* nothing: history, turn and roundCount are unchanged and error is set.
C4_FailureAppendsNothing ==
  [][/\ \A c \in BagToSet(inflight), up \in Upstream :
          up.kind # "ok" => Route(c, up).status \notin 200..299
     /\ last'.ev = "fail" =>
          /\ history' = history
          /\ turn' = turn
          /\ roundCount' = roundCount
          /\ error' # NoError]_vars

C4_Witness ==
  /\ last.ev = "fail"
  /\ history # <<>>
  /\ roundCount = Len(history)
  /\ error # NoError

\* C5: a start leaves history empty, isRunning true, roundCount 0 and turn
\* openai, and the one call it issues goes to openai with the empty
\* history.  Stated as claimed; the call is the nextTurn of the render
\* before the reset.
C5_StartIsFresh ==
  [][StartStep =>
       /\ history' = <<>>
       /\ isRunning'
       /\ roundCount' = 0
       /\ turn' = "openai"
       /\ inflight' =
            inflight (+) SetToBag({[turn |-> "openai", history |-> <<>>,
                                    topic |-> topic]})]_vars

\* C6: a reset step ends with history empty, roundCount 0, turn openai,
\* isRunning false and no error.
C6_ResetClears ==
  [][last'.ev = "reset" =>
       /\ history' = <<>>
       /\ roundCount' = 0
       /\ turn' = "openai"
       /\ ~isRunning'
       /\ error' = NoError]_vars

\* a reset taken after a stop, while the call of the stopped session is
\* still outstanding
C6_Witness ==
  /\ last.ev = "reset"
  /\ history = <<>>
  /\ roundCount = 0
  /\ loading
  /\ Issued > 0

\* C7: with roundCount at maxRounds or beyond, the session is not running,
\* it is marked finished (isFinished, the export offered) and no next turn
\* is scheduled.
C7_CapStops ==
  roundCount >= maxRounds =>
    /\ ~isRunning
    /\ isFinished(State)
    /\ showExport
    /\ timer = {}

\* the cap was reached by the automatic run
C7_Witness ==
  /\ roundCount = maxRounds
  /\ last.ev = "ok"
  /\ Len(history) = maxRounds
  /\ ~isRunning
  /\ timer = {}

\* C8: a step that handles a failed call ends with isRunning false, the
\* error recorded, the history as it was, no next turn scheduled and no
\* call issued; and while the session is not running the only step that
\* issues a call is a start.
C8_FailureHalts ==
  [][/\ last'.ev \in {"fail", "reject"} =>
          /\ ~isRunning'
          /\ error' # NoError
          /\ history' = history
          /\ timer' = {}
          /\ ~IssuesCall
     /\ (~isRunning /\ IssuesCall) => StartStep]_vars

\* a failure in the middle of an automatic run
C8_Witness ==
  /\ last.ev \in {"fail", "reject"}
  /\ Len(history) >= 2
  /\ roundCount < maxRounds
  /\ ~isRunning
  /\ error # NoError
  /\ timer = {}

\* C9: a stop step leaves no next turn scheduled, and from a state that is
\* not running every step but a start stays not running, schedules no turn
\* and issues no call.
C9_StopCancels ==
  [][/\ last'.ev = "stop" => (~isRunning' /\ timer' = {})
     /\ (~isRunning /\ ~StartStep) =>
          (~isRunning' /\ timer' = {} /\ ~IssuesCall)]_vars

\* a stop taken during the pause between two turns, when a timer was pending
C9_Witness ==
  /\ last.ev = "stop"
  /\ ~loading
  /\ history # <<>>
  /\ roundCount < maxRounds
  /\ timer = {}

\* C10: a stop step sets isRunning false and leaves history, roundCount,
\* turn and topic as they were.
C10_StopKeepsSession ==
  [][last'.ev = "stop" =>
       /\ ~isRunning'
       /\ history' = history
       /\ roundCount' = roundCount
       /\ turn' = turn
       /\ topic' = topic]_vars

C10_Witness ==
  /\ last.ev = "stop"
  /\ ~isRunning
  /\ Len(history) >= 2
  /\ turn = "openai"

\* C11: a route handler run on a successful answer whose text is missing,
\* empty or white space only returns status 200 with the placeholder as
\* content, and no message a handler returns has empty content.
C11_EmptyTextIsPlaceholder ==
  (probe.op \in {"llama-turn", "openai-turn"} /\ probe.out # <<>>
     /\ probe.up.kind = "ok") =>
    LET res == probe.out[1]
        blank == ~probe.up.present \/ \A i \in 1..Len(probe.up.text) :
                                        probe.up.text[i] = SP
    IN  /\ res.status = 200
        /\ res.speaker = IF probe.op = "llama-turn" THEN "llama" ELSE "openai"
        /\ res.content # <<>>
        /\ blank => res.content = Placeholder
        /\ ~blank => res.content # Placeholder

\* the llama handler has answered a text of white space only
C11_Witness ==
  /\ probe.op = "llama-turn"
  /\ probe.up.kind = "ok"
  /\ probe.up.present
  /\ probe.up.text = <<SP, SP>>
  /\ probe.out # <<>>
  /\ probe.out[1].content = Placeholder

\* C12: for a non-empty history the message list of the llama handler is
\* the system instruction, then one assistant message per history message
\* in history order, each the upper-case speaker label, ": " and the
\* content, then the one user message that says it is the model's turn.
C12_TranscriptInOrder ==
  (probe.op = "llama-messages" /\ probe.out # <<>> /\ probe.history # <<>>) =>
    LET ms == probe.out[1]
        h  == probe.history
        label(s) == IF s = "openai" THEN "OPENAI" ELSE "LLAMA"
    IN  /\ Len(ms) = Len(h) + 2
        /\ ms[1].role = "system"
        /\ ms[Len(ms)] = LlamaYourTurn
        /\ \A i \in 1..Len(h) :
             /\ ms[i + 1].role = "assistant"
             /\ ms[i + 1].content[1] = label(h[i].speaker)
             /\ ms[i + 1].content[2] = ": "
             /\ SubSeq(ms[i + 1].content, 3, Len(ms[i + 1].content)) = h[i].content
        /\ \A i \in 1..Len(ms) :
             /\ ms[i].role = "system" => i = 1
             /\ ms[i].role = "user" => i = Len(ms)

\* the history [{openai, "a"}, {llama, "a"}] has been rendered
C12_Witness ==
  /\ probe.op = "llama-messages"
  /\ probe.history = <<[speaker |-> "openai", content |-> <<"a">>],
                       [speaker |-> "llama", content |-> <<"a">>]>>
  /\ probe.out # <<>>
  /\ Len(probe.out[1]) = 4
  /\ probe.out[1][3].content = <<"LLAMA", ": ", "a">>

\* sub occurs in text as a run of consecutive chunks
Contains(text, sub) ==
  \E i \in 0..(Len(text) - Len(sub)) : SubSeq(text, i + 1, i + Len(sub)) = sub

StartsWith(text, head) ==
  Len(text) >= Len(head) /\ SubSeq(text, 1, Len(head)) = head

\* C13: the input of the openai handler is the system instruction and one
\* user message.  Given a topic and an empty history the user message is
\* the opening prompt and contains the topic verbatim (between the quotes);
\* given a non-empty history it is the continuation prompt, which contains
\* every history line, upper-case label and content, the first line first.
C13_OpeningNamesTopic ==
  (probe.op = "openai-input" /\ probe.out # <<>> /\ probe.hasTopic) =>
    LET input == probe.out[1]
        user  == input[2].content
        h     == probe.history
    IN  /\ Len(input) = 2
        /\ input[1].role = "system"
        /\ input[2].role = "user"
        /\ h = <<>> =>
             /\ StartsWith(user, OpeningHead)
             /\ Contains(user, <<"\"">> \o probe.topic \o <<"\"", ".">>)
             /\ Len(user) = Len(OpeningHead) + Len(probe.topic) + Len(OpeningTail)
        /\ h # <<>> =>
             /\ StartsWith(user, ContinueHead)
             /\ ~StartsWith(user, OpeningHead)
             /\ \A i \in 1..Len(h) :
                  Contains(user, <<IF h[i].speaker = "openai" THEN "OPENAI"
                                   ELSE "LLAMA", ": ">> \o h[i].content)
             /\ StartsWith(user,
                   ContinueHead
                     \o <<IF h[1].speaker = "openai" THEN "OPENAI" ELSE "LLAMA",
                          ": ">> \o h[1].content)

\* the opening prompt for a topic that holds a quote and a letter
C13_Witness ==
  /\ probe.op = "openai-input"
  /\ probe.hasTopic
  /\ probe.history = <<>>
  /\ probe.topic = <<"\"", "a">>
  /\ probe.out # <<>>
  /\ probe.out[1][2].content = OpeningHead \o <<"\"", "a">> \o OpeningTail

\* C14: reading back the JSON export of a session gives the topic and the
\* history that were exported.
C14_ExportRoundTrip ==
  (probe.op = "export" /\ Len(probe.out) = 2) =>
    probe.out[2] = [ok |-> TRUE, topic |-> probe.topic, history |-> probe.history]

\* a session whose topic is a backslash and whose one message is a quote
\* has been exported and read back
C14_Witness ==
  /\ probe.op = "export"
  /\ probe.topic = <<"\\">>
  /\ probe.history = <<[speaker |-> "llama", content |-> <<"\"">>]>>
  /\ Len(probe.out) = 2
  /\ probe.out[2].ok
  /\ Len(probe.out[1]) > 30

\* C15: when nobody stops or resets it and every call succeeds, a running
\* session comes to the finished state: not running, maxRounds rounds
\* counted and maxRounds messages in the history.
Finished ==
  ~isRunning /\ roundCount >= maxRounds /\ Len(history) = maxRounds

C15_RunsToTheCap == isRunning ~> Finished

\* the tenth reply has just ended the session
C15_Witness ==
  Finished /\ last.ev = "ok" /\ showExport /\ ~loading /\ timer = {}

\* C16: a reply that succeeds after the session was stopped is applied all
\* the same: its message is appended, the speaker flips, the round is
\* counted, and the session stays stopped.
C16_ReplyAfterStop ==
  [][(last'.ev = "ok" /\ ~isRunning) =>
       /\ Len(history') = Len(history) + 1
       /\ \E m \in {history'[Len(history')]} :
            /\ history' = Append(history, m)
            /\ m.speaker \in {"openai", "llama"}
       /\ turn' # turn
       /\ roundCount' = roundCount + 1
       /\ ~isRunning']_vars

\* stop was pressed while the second call was out (the export is offered,
\* no error), then its reply was applied
C16_Witness ==
  /\ last.ev = "ok"
  /\ ~isRunning
  /\ last.starts = 1
  /\ error = NoError
  /\ showExport
  /\ roundCount = 2
  /\ Len(history) = 2
  /\ turn = "openai"
  /\ timer = {}

\* C17: the number of rounds counted is the number of messages in the
\* history.
C17_RoundsAreMessages == roundCount = Len(history)

\* a second session, started over the first, has counted its third message
C17_Witness ==
  /\ last.starts = 2
  /\ last.ev = "ok"
  /\ roundCount = 3
  /\ Len(history) = 3

\* C18: what reset() produced is kept until the next start: the step
\* after a reset, unless it is a start, leaves the history empty, the
\* round count 0 and the speaker "openai", also when it is the reply to
\* a call made before the reset.
C18_ResetIsKept ==
  [][(last.ev = "reset" /\ ~StartStep) =>
       /\ history' = <<>>
       /\ roundCount' = 0
       /\ turn' = "openai"]_vars

====
